---- MODULE Spec2Model ----
(***************************************************************************)
(* A model of midi2gcode: the MIDI file parser (midifile.py), the timeline *)
(* merger and monophonic extractor, the motion planner and the generation  *)
(* run (midi2gcode.py).                                                    *)
(*                                                                         *)
(* Python floats are modelled as exact rationals <<num, den>> with den > 0 *)
(* in lowest terms.                                                        *)
(***************************************************************************)
EXTENDS Integers, Sequences, FiniteSets, TLC

VARIABLES
    \* ---- motion planner (class Midi2Gcode)
    _pos,          \* self._pos: axis -> coordinate (rational)
    _last_dir,     \* self._last_dir: axis -> +1 / -1
    emitted,       \* the positions yielded by the last move() call, in order
    prev_pos,      \* self._pos when the last move() call began
    prev_dir,      \* self._last_dir when the last move() call began
    requested,     \* the distances mapping of the last move() call
    move_error,    \* the exception the last move() call ended with, or "none"
    calls,         \* number of move() calls made so far
    trace,         \* one record per elementary move of the last move() call
    splits,        \* one record per split (else branch) of the last move() call
    run,           \* number of generate() calls begun on this instance
    idx,           \* intervals the loop of generate() has consumed in this run
    output         \* the commands printed by the last step of generate()

plannerVars == <<_pos, _last_dir, emitted, prev_pos, prev_dir, requested, move_error,
                 calls, trace, splits, run, idx, output>>

VARIABLES
    \* ---- parser (class MidiFile)
    data,              \* the bytes of the file f
    cur,               \* f.tell()
    pc,                \* where the run is: "header", "track", "events",
                       \* "parsed", "merged", "extracted", "aborted", "idle";
                       \* for generate(): "constructed", "generating",
                       \* "generated"
    format,            \* self.format
    ntrks,             \* self.ntrks
    division,          \* self.division
    ticks_per_second,  \* self.ticks_per_second (rational)
    _last_msg_type,    \* self._last_msg_type, Unset while the attribute is missing
    tracks,            \* self.tracks
    track,             \* _parse_track: the local list track
    end_pos,           \* _parse_track: end_pos
    tick_pos,          \* _parse_track: tick_pos
    error,             \* the exception that ended the run, or "none"
    decoded,           \* how the last event was decoded (history)
    timeline,          \* the list returned by note_events()
    intervals          \* the list returned by monophone_notes()

parserVars == <<data, cur, pc, format, ntrks, division, ticks_per_second,
                _last_msg_type, tracks, track, end_pos, tick_pos, error, decoded,
                timeline, intervals>>

vars == <<plannerVars, parserVars>>

----------------------------------------------------------------------------
(* Exact rational arithmetic                                               *)

Abs(n) == IF n < 0 THEN -n ELSE n

RECURSIVE GCD(_, _)
GCD(a, b) == IF b = 0 THEN a ELSE GCD(b, a % b)

Rat(n, d) ==
    LET s == IF d < 0 THEN -1 ELSE 1
        g == GCD(Abs(n), Abs(d))
    IN  <<(s * n) \div g, (s * d) \div g>>

R(n) == <<n, 1>>
\* sums are taken over the least common denominator, which keeps the
\* intermediate products small
RAdd(a, b) ==
    LET g == GCD(a[2], b[2])
    IN  Rat(a[1] * (b[2] \div g) + b[1] * (a[2] \div g), (a[2] \div g) * b[2])
RSub(a, b) ==
    LET g == GCD(a[2], b[2])
    IN  Rat(a[1] * (b[2] \div g) - b[1] * (a[2] \div g), (a[2] \div g) * b[2])
RMul(a, b) == Rat(a[1] * b[1], a[2] * b[2])
RDiv(a, b) == Rat(a[1] * b[2], a[2] * b[1])
RLe(a, b) == a[1] * b[2] <= b[1] * a[2]
RLt(a, b) == a[1] * b[2] < b[1] * a[2]
RAbs(a) == <<Abs(a[1]), a[2]>>
RMax(a, b) == IF RLe(a, b) THEN b ELSE a
RMin(a, b) == IF RLe(a, b) THEN a ELSE b

----------------------------------------------------------------------------
(* Configuration tables of midi2gcode.py                                   *)

Axes == {"X", "Y", "Z"}

\* dict order of the distances mapping built by generate(): channels sorted
AxisOrder == <<"X", "Y", "Z">>

LimitLo == 10
LimitHi == 210

LIMITS_MM == [axis \in Axes |-> <<LimitLo, LimitHi>>]

\* bound of the planner model: number of move() calls in a run
MaxCalls == 2

\* the attribute self._last_msg_type does not exist before the first
\* channel message with an explicit status byte
Unset == -1

\* bounds of the parser model: events in a file, bytes cut off its end,
\* events the track loop may append
MaxEvents == 3
MaxCut == 2
MaxTrackLen == 4

\* bound of the merger model: raw events over the two tracks
MaxRawEvents == 3
\* generate() calls on one instance
MaxRuns == 2
\* intervals returned by monophone_notes()
MaxIntervals == 2

----------------------------------------------------------------------------
(* Midi2Gcode.move                                                         *)

InLimits(axis, x) ==
    RLe(R(LIMITS_MM[axis][1]), x) /\ RLe(x, R(LIMITS_MM[axis][2]))

\* the keys of a distances mapping, in dict iteration order
Items(distances) == SelectSeq(AxisOrder, LAMBDA axis : axis \in DOMAIN distances)

\* MaxDistance with a fault: the reach is the whole travel range, wherever
\* the axis stands
MaxDistance_Span(pos, axis) ==
    R(LIMITS_MM[axis][2] - LIMITS_MM[axis][1])

\* line 100: max(abs(self._pos[axis] - l) for l in LIMITS_MM[axis])
MaxDistance(pos, axis) ==
    RMax(RAbs(RSub(pos[axis], R(LIMITS_MM[axis][1]))),
         RAbs(RSub(pos[axis], R(LIMITS_MM[axis][2]))))

\* line 101: all(max_distances[axis] >= distance ...)
SingleMoveFits(pos, distances) ==
    \A axis \in DOMAIN distances : RLe(distances[axis], MaxDistance(pos, axis))

\* lines 105-118: the body of the per-axis loop of an elementary move.
\* s = [pos, dir, out, err]; the Z bias of line 118 is reached only when the
\* axis reversed, because the first branch ends with continue.
\* MoveAxis with a fault: on a reversal the coordinate is advanced in the
\* old direction
MoveAxis_MoveBeforeFlip(s, axis, distance) ==
    LET fwd == RAdd(s.pos[axis], RMul(distance, R(s.dir[axis])))
        bwd == RSub(s.pos[axis], RMul(distance, R(s.dir[axis])))
    IN  IF InLimits(axis, fwd)
        THEN [s EXCEPT !.pos[axis] = fwd]
        ELSE IF InLimits(axis, bwd)
        THEN LET flipped == [s.dir EXCEPT ![axis] = -s.dir[axis]]
             IN  [s EXCEPT !.pos[axis] = fwd,
                           !.dir = [flipped EXCEPT !["Z"] = -1],
                           !.rev = @ \cup {axis}]
        ELSE [s EXCEPT !.err = "ValueError"]

\* MoveAxis with a fault: on a reversal the direction is recorded but the
\* coordinate is not advanced
MoveAxis_FlipOnly(s, axis, distance) ==
    LET fwd == RAdd(s.pos[axis], RMul(distance, R(s.dir[axis])))
        bwd == RSub(s.pos[axis], RMul(distance, R(s.dir[axis])))
    IN  IF InLimits(axis, fwd)
        THEN [s EXCEPT !.pos[axis] = fwd]
        ELSE IF InLimits(axis, bwd)
        THEN LET flipped == [s.dir EXCEPT ![axis] = -s.dir[axis]]
             IN  [s EXCEPT !.dir = [flipped EXCEPT !["Z"] = -1],
                           !.rev = @ \cup {axis}]
        ELSE [s EXCEPT !.err = "ValueError"]

\* MoveAxis with a fault: the Z direction is forced to -1 on every branch
MoveAxis_AlwaysZBias(s, axis, distance) ==
    LET fwd == RAdd(s.pos[axis], RMul(distance, R(s.dir[axis])))
        bwd == RSub(s.pos[axis], RMul(distance, R(s.dir[axis])))
    IN  IF InLimits(axis, fwd)
        THEN [s EXCEPT !.pos[axis] = fwd, !.dir["Z"] = -1]
        ELSE IF InLimits(axis, bwd)
        THEN LET flipped == [s.dir EXCEPT ![axis] = -s.dir[axis]]
             IN  [s EXCEPT !.pos[axis] = bwd,
                           !.dir = [flipped EXCEPT !["Z"] = -1],
                           !.rev = @ \cup {axis}]
        ELSE [s EXCEPT !.err = "ValueError"]

\* MoveAxis with a fault: a reversal does not force the Z direction
MoveAxis_NoZBias(s, axis, distance) ==
    LET fwd == RAdd(s.pos[axis], RMul(distance, R(s.dir[axis])))
        bwd == RSub(s.pos[axis], RMul(distance, R(s.dir[axis])))
    IN  IF InLimits(axis, fwd)
        THEN [s EXCEPT !.pos[axis] = fwd]
        ELSE IF InLimits(axis, bwd)
        THEN [s EXCEPT !.pos[axis] = bwd,
                       !.dir[axis] = -s.dir[axis],
                       !.rev = @ \cup {axis}]
        ELSE [s EXCEPT !.err = "ValueError"]

\* lines 105-118: one axis of the loop; rev collects the axes that took the
\* reversal branch (lines 110-112) in this elementary move
MoveAxis(s, axis, distance) ==
    LET fwd == RAdd(s.pos[axis], RMul(distance, R(s.dir[axis])))
        bwd == RSub(s.pos[axis], RMul(distance, R(s.dir[axis])))
    IN  IF InLimits(axis, fwd)
        THEN [s EXCEPT !.pos[axis] = fwd]
        ELSE IF InLimits(axis, bwd)
        THEN LET flipped == [s.dir EXCEPT ![axis] = -s.dir[axis]]
             IN  [s EXCEPT !.pos[axis] = bwd,
                           !.dir = [flipped EXCEPT !["Z"] = -1],
                           !.rev = @ \cup {axis}]
        ELSE [s EXCEPT !.err = "ValueError"]

RECURSIVE MoveAxes(_, _, _, _)
MoveAxes(s, distances, order, i) ==
    IF i > Len(order) \/ s.err # "none"
    THEN s
    ELSE MoveAxes(MoveAxis(s, order[i], distances[order[i]]), distances, order, i + 1)

\* lines 104-119: one elementary move, then yield self._pos
ElementaryMove(s, distances) ==
    LET t == MoveAxes([s EXCEPT !.rev = {}], distances, Items(distances), 1)
        step == [pos |-> s.pos, dir |-> s.dir, distances |-> distances,
                 rev |-> t.rev, new_pos |-> t.pos, new_dir |-> t.dir]
    IN  IF t.err # "none" THEN t
        ELSE [t EXCEPT !.out = Append(t.out, t.pos),
                       !.trace = Append(t.trace, step)]

RECURSIVE MinOver(_, _, _)
MinOver(f, order, i) ==
    IF i = Len(order) THEN f[order[i]]
    ELSE RMin(f[order[i]], MinOver(f, order, i + 1))

\* MinFraction with a fault: half the fraction, so that the first part of a
\* split stops half way to the reach
MinFraction_Half(pos, distances) ==
    RDiv(MinOver([axis \in DOMAIN distances |->
                     RDiv(MaxDistance(pos, axis), distances[axis])],
                 Items(distances), 1),
         R(2))

\* line 121: min(max_distances[axis]/distance ...)
MinFraction(pos, distances) ==
    MinOver([axis \in DOMAIN distances |->
                RDiv(MaxDistance(pos, axis), distances[axis])],
            Items(distances), 1)

Scale(distances, f) == [axis \in DOMAIN distances |-> RMul(distances[axis], f)]

RECURSIVE Move(_, _)
\* Move with a fault: the second part is the distance less the reach, axis
\* by axis, instead of the distance scaled by 1 - min_fraction
Move_Part2ByReach(s, distances) ==
    IF s.err # "none" THEN s
    ELSE IF SingleMoveFits(s.pos, distances)
    THEN ElementaryMove(s, distances)
    ELSE IF \E axis \in DOMAIN distances : distances[axis][1] = 0
    THEN [s EXCEPT !.err = "ZeroDivisionError"]
    ELSE LET min_fraction == MinFraction(s.pos, distances)
             part1 == Scale(distances, min_fraction)
             part2 == [axis \in DOMAIN distances |->
                          RSub(distances[axis], MaxDistance(s.pos, axis))]
             first == Move(s, part1)
             split == [pos |-> s.pos, distances |-> distances,
                       part1 |-> part1, part2 |-> part2,
                       moves1 |-> Len(first.out) - Len(s.out)]
         IN  Move([first EXCEPT !.splits = Append(@, split)], part2)

\* lines 95-125: the whole generator, run to exhaustion (or to its exception);
\* a split records the position it began at, its two parts and the number of
\* elementary moves its first part took
Move(s, distances) ==
    IF s.err # "none" THEN s
    ELSE IF SingleMoveFits(s.pos, distances)
    THEN ElementaryMove(s, distances)
    ELSE IF \E axis \in DOMAIN distances : distances[axis][1] = 0
    THEN [s EXCEPT !.err = "ZeroDivisionError"]
    ELSE LET min_fraction == MinFraction(s.pos, distances)
             part1 == Scale(distances, min_fraction)
             part2 == Scale(distances, RSub(R(1), min_fraction))
             first == Move(s, part1)
             split == [pos |-> s.pos, distances |-> distances,
                       part1 |-> part1, part2 |-> part2,
                       moves1 |-> Len(first.out) - Len(s.out)]
         IN  Move([first EXCEPT !.splits = Append(@, split)], part2)

\* lines 65-66: _reset
ResetPos == [axis \in Axes |-> R(LIMITS_MM[axis][1])]

\* lines 58-62: __init__
InitDir == [axis \in Axes |-> 1]

\* requested distances: silent (0), within every reach, beyond every reach
Distances == {R(0), R(90), R(330)}

\* the mappings move() is called with: any subset of the axes
DistanceMaps == UNION {[keys -> Distances] : keys \in SUBSET Axes}

InitPlanner ==
    /\ _pos = ResetPos
    /\ _last_dir = InitDir
    /\ emitted = <<>>
    /\ prev_pos = ResetPos
    /\ prev_dir = InitDir
    /\ requested = <<>>
    /\ move_error = "none"
    /\ calls = 0
    /\ trace = <<>>
    /\ splits = <<>>
    /\ run = 0
    /\ idx = 0
    /\ output = <<>>
    /\ data = <<>>
    /\ cur = 0
    /\ pc = "idle"
    /\ format = 0
    /\ ntrks = 0
    /\ division = 0
    /\ ticks_per_second = R(0)
    /\ _last_msg_type = Unset
    /\ tracks = <<>>
    /\ track = <<>>
    /\ end_pos = 0
    /\ tick_pos = 0
    /\ error = "none"
    /\ decoded = [how |-> "none", at |-> 0, explicit |-> Unset, between |-> {}]
    /\ timeline = <<>>
    /\ intervals = <<>>

\* the planner as a move() call finds it
Begin(pos, dir) ==
    [pos |-> pos, dir |-> dir, out |-> <<>>, err |-> "none", rev |-> {},
     trace |-> <<>>, splits |-> <<>>]

\* one call of move(distances), consumed to the end as generate() does
MoveCall(distances) ==
    /\ calls < MaxCalls
    /\ \E s \in {Move(Begin(_pos, _last_dir), distances)} :
           /\ _pos' = s.pos
           /\ _last_dir' = s.dir
           /\ emitted' = s.out
           /\ move_error' = s.err
           /\ trace' = s.trace
           /\ splits' = s.splits
    /\ prev_pos' = _pos
    /\ prev_dir' = _last_dir
    /\ requested' = distances
    /\ calls' = calls + 1
    /\ UNCHANGED <<run, idx, output>>
    /\ UNCHANGED parserVars

PlanMove == \E distances \in DistanceMaps : MoveCall(distances)

NextPlanner == PlanMove

SpecPlanner == InitPlanner /\ [][NextPlanner]_vars

----------------------------------------------------------------------------
(* MidiFile: reading from the byte source                                  *)

Min(a, b) == IF a <= b THEN a ELSE b

\* f.read(n) at offset c: the bytes available, at most n of them
Read(c, n) == SubSeq(data, c + 1, Min(c + n, Len(data)))

\* f.tell() after f.read(n) at offset c
Advance(c, n) == Min(c + n, Len(data))

\* int.from_bytes(b, 'big'); 0 for the empty string
RECURSIVE FromBytes(_)
FromBytes(b) ==
    IF Len(b) = 0 THEN 0
    ELSE FromBytes(SubSeq(b, 1, Len(b) - 1)) * 256 + b[Len(b)]

\* lines 16-24: _read_varlength, from offset c with accumulator n;
\* at the end of the file f.read(1) is empty, x is 0 and the loop breaks
RECURSIVE ReadVarlength(_, _)
ReadVarlength(c, n) ==
    LET x == FromBytes(Read(c, 1))
        m == n * 128 + (x % 128)
    IN  IF x >= 128 THEN ReadVarlength(Advance(c, 1), m)
        ELSE [value |-> m, cur |-> Advance(c, 1)]

\* lines 44-54: _msglen
MSGLEN(statusbyte) ==
    LET hi == (statusbyte \div 16) * 16
    IN  IF hi \in {128, 144, 160, 176, 224} THEN 2
        ELSE IF hi \in {192, 208} THEN 1
        ELSE 0

Magic_MThd == <<77, 84, 104, 100>>
Magic_MTrk == <<77, 84, 114, 107>>

IsSMPTE(div) == div >= 32768

\* SetTempo with a fault: every tempo event sets ticks_per_second
SetTempo_Overwrite(r, meta_type, msg) ==
    IF meta_type = 81 /\ ~IsSMPTE(division)
    THEN LET microseconds_per_quarternote == FromBytes(msg)
         IN  IF microseconds_per_quarternote = 0
             THEN [r EXCEPT !.err = "ZeroDivisionError"]
             ELSE [r EXCEPT !.tps =
                      RMul(Rat(1000000, microseconds_per_quarternote), R(division))]
    ELSE r

\* SetTempo with a fault: seconds per quarter note used for quarter notes
\* per second
SetTempo_Inverted(r, meta_type, msg) ==
    IF meta_type = 81 /\ r.tps = R(0) /\ ~IsSMPTE(division)
    THEN LET microseconds_per_quarternote == FromBytes(msg)
         IN  IF microseconds_per_quarternote = 0
             THEN [r EXCEPT !.err = "ZeroDivisionError"]
             ELSE [r EXCEPT !.tps =
                      RMul(Rat(microseconds_per_quarternote, 1000000), R(division))]
    ELSE r

\* lines 74-78: the tempo branch of a meta event; r carries tps and err
SetTempo(r, meta_type, msg) ==
    IF meta_type = 81 /\ r.tps = R(0) /\ ~IsSMPTE(division)
    THEN LET microseconds_per_quarternote == FromBytes(msg)
         IN  IF microseconds_per_quarternote = 0
             THEN [r EXCEPT !.err = "ZeroDivisionError"]
             ELSE [r EXCEPT !.tps =
                      RMul(Rat(1000000, microseconds_per_quarternote), R(division))]
    ELSE r

\* lines 56-80: _parse_msg at offset c.
\* Result: the event's type and payload, the new offset, the new
\* _last_msg_type and ticks_per_second, the exception raised (or "none") and
\* how the first byte was taken ("running", "channel", "sysex", "meta").
ParseMsg(c) ==
    LET msg_type == FromBytes(Read(c, 1))
        c1 == Advance(c, 1)
        r0 == [type |-> msg_type, msg |-> <<>>, cur |-> c1,
               last |-> _last_msg_type, tps |-> ticks_per_second,
               err |-> "none", how |-> "none"]
    IN  IF msg_type < 128
        THEN IF _last_msg_type = Unset
             THEN [r0 EXCEPT !.err = "AttributeError", !.how = "running"]
             ELSE LET n == MSGLEN(_last_msg_type) - 1
                  IN  [r0 EXCEPT !.type = _last_msg_type,
                                 !.msg = <<msg_type>> \o Read(c1, n),
                                 !.cur = Advance(c1, n),
                                 !.how = "running"]
        ELSE IF msg_type < 240
        THEN [r0 EXCEPT !.msg = Read(c1, MSGLEN(msg_type)),
                        !.cur = Advance(c1, MSGLEN(msg_type)),
                        !.last = msg_type,
                        !.how = "channel"]
        ELSE IF msg_type \in {240, 247}
        THEN LET v == ReadVarlength(c1, 0)
             IN  [r0 EXCEPT !.msg = Read(v.cur, v.value),
                            !.cur = Advance(v.cur, v.value),
                            !.how = "sysex"]
        ELSE IF msg_type = 255
        THEN LET meta_type == FromBytes(Read(c1, 1))
                 v == ReadVarlength(Advance(c1, 1), 0)
                 msg == Read(v.cur, v.value)
             IN  SetTempo([r0 EXCEPT !.type = meta_type,
                                     !.msg = msg,
                                     !.cur = Advance(v.cur, v.value),
                                     !.how = "meta"],
                          meta_type, msg)
        ELSE [r0 EXCEPT !.err = "ValueError"]

----------------------------------------------------------------------------
(* The files the parser is run on                                          *)

U16(n) == <<n \div 256, n % 256>>
U32(n) == <<n \div 16777216, (n \div 65536) % 256, (n \div 256) % 256, n % 256>>

\* events as they are written in a track: delta-time, then the message
EvNoteOn == <<0, 144, 69, 64>>                    \* note-on ch 0 key 69
EvNoteOffLate == <<131, 96, 128, 69, 0>>          \* delta 480, note-off key 69
EvRunning == <<0, 71, 64>>                        \* two data bytes, no status
EvProgram == <<0, 192, 5>>                        \* program change
EvTempo500k == <<0, 255, 81, 3, 7, 161, 32>>      \* set-tempo 500000
EvTempo1M == <<0, 255, 81, 3, 15, 66, 64>>        \* set-tempo 1000000
EvSysEx == <<0, 240, 1, 247>>                     \* system exclusive
EvUnknown == <<0, 241>>                           \* status byte 0xF1

EventBytes == {EvNoteOn, EvNoteOffLate, EvRunning, EvProgram,
               EvTempo500k, EvTempo1M, EvSysEx, EvUnknown}

RECURSIVE Concat(_)
Concat(ss) == IF Len(ss) = 0 THEN <<>> ELSE Head(ss) \o Concat(Tail(ss))

EventSeqs == UNION {[1..k -> EventBytes] : k \in 0..MaxEvents}

\* division fields: 480 pulses per quarter note; SMPTE 25 frames, 40 ticks
DivisionPPQN == 480
DivisionSMPTE == 59176

HeaderChunk(magic, length, n, div) ==
    magic \o U32(length) \o U16(1) \o U16(n) \o U16(div)

TrackChunk(magic, body) == magic \o U32(Len(body)) \o body

\* a well-formed file of one or two tracks holding the events evs
FileOf(div, evs, split, n) ==
    IF n = 1
    THEN HeaderChunk(Magic_MThd, 6, 1, div) \o TrackChunk(Magic_MTrk, Concat(evs))
    ELSE HeaderChunk(Magic_MThd, 6, 2, div)
         \o TrackChunk(Magic_MTrk, Concat(SubSeq(evs, 1, split)))
         \o TrackChunk(Magic_MTrk, Concat(SubSeq(evs, split + 1, Len(evs))))

\* the file with its last k bytes missing
CutOff(file, k) == SubSeq(file, 1, Len(file) - k)

\* malformed files: wrong header magic, wrong header length, no track,
\* wrong track magic
BadFiles ==
    {HeaderChunk(Magic_MTrk, 6, 0, DivisionPPQN),
     HeaderChunk(Magic_MThd, 8, 0, DivisionPPQN),
     HeaderChunk(Magic_MThd, 6, 0, DivisionPPQN),
     HeaderChunk(Magic_MThd, 6, 1, DivisionPPQN) \o TrackChunk(Magic_MThd, EvNoteOn)}

\* the file handed to MidiFile: one or two tracks of events, possibly with
\* bytes missing at its end; an SMPTE file; a malformed file
FileChosen ==
    \/ \E evs \in EventSeqs, k \in 0..MaxCut :
          data = CutOff(FileOf(DivisionPPQN, evs, 0, 1), k)
    \/ \E evs \in EventSeqs, k \in 0..MaxCut :
          \E split \in 0..Len(evs) :
             data = CutOff(FileOf(DivisionPPQN, evs, split, 2), k)
    \/ \E evs \in [1..1 -> EventBytes] : data = FileOf(DivisionSMPTE, evs, 0, 1)
    \/ data \in BadFiles

----------------------------------------------------------------------------
(* MidiFile._parse                                                         *)

Abort(exception) ==
    /\ pc' = "aborted"
    /\ error' = exception

\* lines 32-42: _parse_header. Line 42 reads the name n_frame_per_second,
\* which is never assigned (line 40 assigns n_frames_per_second), so the
\* SMPTE branch raises NameError.
ParseHeader ==
    /\ pc = "header"
    /\ LET hdr == Read(0, 4)
           length == FromBytes(Read(4, 4))
           div == FromBytes(Read(12, 2))
       IN  IF hdr # Magic_MThd \/ length # 6
           THEN /\ Abort("AssertionError")
                /\ cur' = Advance(0, IF hdr # Magic_MThd THEN 4 ELSE 8)
                /\ UNCHANGED <<format, ntrks, division>>
           ELSE /\ format' = FromBytes(Read(8, 2))
                /\ ntrks' = FromBytes(Read(10, 2))
                /\ division' = div
                /\ cur' = Advance(0, 14)
                /\ IF IsSMPTE(div)
                   THEN Abort("NameError")
                   ELSE /\ pc' = IF ntrks' = 0 THEN "parsed" ELSE "track"
                        /\ UNCHANGED error
    /\ UNCHANGED <<data, ticks_per_second, _last_msg_type, tracks, track,
                   end_pos, tick_pos, decoded, timeline, intervals>>
    /\ UNCHANGED plannerVars

\* lines 84-89: the start of _parse_track
ParseTrackHeader ==
    /\ pc = "track"
    /\ LET hdr == Read(cur, 4)
           track_length == FromBytes(Read(Advance(cur, 4), 4))
       IN  IF hdr # Magic_MTrk
           THEN /\ Abort("AssertionError")
                /\ cur' = Advance(cur, 4)
                /\ UNCHANGED <<track, end_pos, tick_pos>>
           ELSE /\ cur' = Advance(cur, 8)
                /\ track' = <<>>
                /\ end_pos' = cur' + track_length
                /\ tick_pos' = 0
                /\ pc' = "events"
                /\ UNCHANGED error
    /\ UNCHANGED <<data, format, ntrks, division, ticks_per_second,
                   _last_msg_type, tracks, decoded, timeline, intervals>>
    /\ UNCHANGED plannerVars

\* lines 90-94: one iteration of the loop of _parse_track
ParseEvent ==
    /\ pc = "events"
    /\ cur < end_pos
    /\ Len(track) < MaxTrackLen
    /\ \E v \in {ReadVarlength(cur, 0)} :
       \E r \in {ParseMsg(v.cur)} :
          /\ tick_pos' = tick_pos + v.value
          /\ cur' = r.cur
          /\ ticks_per_second' = r.tps
          /\ decoded' = [how |-> r.how,
                         at |-> v.cur,
                         explicit |-> IF r.how = "channel" THEN r.type
                                      ELSE decoded.explicit,
                         between |-> IF r.how = "channel" THEN {}
                                     ELSE decoded.between \cup {r.how}]
          /\ IF r.err # "none"
             THEN /\ Abort(r.err)
                  /\ UNCHANGED <<track, _last_msg_type>>
             ELSE /\ track' = Append(track, [tick |-> tick_pos', type |-> r.type,
                                             msg |-> r.msg])
                  /\ _last_msg_type' = r.last
                  /\ UNCHANGED <<pc, error>>
    /\ UNCHANGED <<data, format, ntrks, division, tracks, end_pos, timeline, intervals>>
    /\ UNCHANGED plannerVars

\* lines 90, 95 and 100-101: the loop of _parse_track ends, the track is
\* returned and appended to self.tracks
EndTrack ==
    /\ pc = "events"
    /\ cur >= end_pos
    /\ tracks' = Append(tracks, track)
    /\ track' = <<>>
    /\ pc' = IF Len(tracks') = ntrks THEN "parsed" ELSE "track"
    /\ UNCHANGED <<data, cur, format, ntrks, division, ticks_per_second,
                   _last_msg_type, end_pos, tick_pos, error, decoded,
                   timeline, intervals>>
    /\ UNCHANGED plannerVars

----------------------------------------------------------------------------
(* MidiFile.note_events                                                    *)

\* sorted() of a set of integers
RECURSIVE SortedInts(_)
SortedInts(S) ==
    IF S = {} THEN <<>>
    ELSE LET m == CHOOSE x \in S : \A y \in S : x <= y
         IN  <<m>> \o SortedInts(S \ {m})

\* OccLe with a fault: True sorts before False
OccLe_OnsetsFirst(a, b) ==
    LET an == IF a[1] THEN 0 ELSE 1
        bn == IF b[1] THEN 0 ELSE 1
    IN  \/ an < bn
        \/ an = bn /\ a[2] < b[2]
        \/ an = bn /\ a[2] = b[2] /\ a[3] <= b[3]

\* tuple order of (on, channel, key): False sorts before True
OccLe(a, b) ==
    LET an == IF a[1] THEN 1 ELSE 0
        bn == IF b[1] THEN 1 ELSE 0
    IN  \/ an < bn
        \/ an = bn /\ a[2] < b[2]
        \/ an = bn /\ a[2] = b[2] /\ a[3] <= b[3]

\* sorted() of a set of (on, channel, key) tuples
RECURSIVE SortedOccs(_)
SortedOccs(S) ==
    IF S = {} THEN <<>>
    ELSE LET m == CHOOSE x \in S : \A y \in S : OccLe(x, y)
         IN  <<m>> \o SortedOccs(S \ {m})

\* every (tick, type, msg) of every track
AllRaw(trks) ==
    UNION {{trks[t][i] : i \in DOMAIN trks[t]} : t \in DOMAIN trks}

\* line 110: control&0xe0 == 0x80
IsNoteControl(control) == control \div 32 = 4

\* lines 112-113 index msg[0], and msg[1] when the status is note-on
RaisesIndexError(ev) ==
    \/ Len(ev.msg) = 0
    \/ (ev.type \div 16 = 9 /\ Len(ev.msg) < 2)

\* Occurrence with a fault: the velocity of a note-on is not looked at
Occurrence_IgnoreVelocity(ev) ==
    <<ev.type \div 16 = 9, ev.type % 16, ev.msg[1]>>

\* lines 111-113: (on, channel, key)
Occurrence(ev) ==
    <<ev.type \div 16 = 9 /\ ev.msg[2] > 0, ev.type % 16, ev.msg[1]>>

\* note_events with a fault: min_ts is not subtracted
NoteEvents_NoNormalise(trks) ==
    LET notes == {ev \in AllRaw(trks) : IsNoteControl(ev.type)}
    IN  IF \E ev \in notes : RaisesIndexError(ev)
        THEN [err |-> "IndexError", list |-> <<>>]
        ELSE LET keys == {ev.tick : ev \in notes}
                 events_by_time == [ts \in keys |->
                     {Occurrence(ev) : ev \in {e \in notes : e.tick = ts}}]
                 order == SortedInts(keys)
             IN  [err |-> "none",
                  list |-> [i \in 1..Len(order) |->
                              <<order[i], SortedOccs(events_by_time[order[i]])>>]]

\* lines 103-118: note_events
NoteEvents(trks) ==
    LET notes == {ev \in AllRaw(trks) : IsNoteControl(ev.type)}
    IN  IF \E ev \in notes : RaisesIndexError(ev)
        THEN [err |-> "IndexError", list |-> <<>>]
        ELSE LET keys == {ev.tick : ev \in notes}
                 events_by_time == [ts \in keys |->
                     {Occurrence(ev) : ev \in {e \in notes : e.tick = ts}}]
                 min_ts == IF keys = {} THEN 0
                           ELSE CHOOSE x \in keys : \A y \in keys : x <= y
                 order == SortedInts(keys)
             IN  [err |-> "none",
                  list |-> [i \in 1..Len(order) |->
                              <<order[i] - min_ts,
                                SortedOccs(events_by_time[order[i]])>>]]

----------------------------------------------------------------------------
(* MidiFile.monophone_notes                                                *)

\* ApplyOccurrence with a fault: an offset clears the channel whatever pitch
\* the channel holds
ApplyOccurrence_ClearAnyOffset(state, occ) ==
    LET on == occ[1]
        channel == occ[2]
        key == occ[3]
    IN  IF ~on
        THEN [c \in DOMAIN state \ {channel} |-> state[c]]
        ELSE [c \in DOMAIN state \cup {channel} |->
                 IF c = channel THEN key ELSE state[c]]

\* lines 129-133: one (on, channel, key) applied to the dict state
ApplyOccurrence(state, occ) ==
    LET on == occ[1]
        channel == occ[2]
        key == occ[3]
    IN  IF ~on
        THEN IF channel \in DOMAIN state /\ state[channel] = key
             THEN [c \in DOMAIN state \ {channel} |-> state[c]]
             ELSE state
        ELSE [c \in DOMAIN state \cup {channel} |->
                 IF c = channel THEN key ELSE state[c]]

\* line 128: the loop over the occurrences of one timeline entry
RECURSIVE ApplyEvents(_, _, _)
ApplyEvents(state, events, i) ==
    IF i > Len(events) THEN state
    ELSE ApplyEvents(ApplyOccurrence(state, events[i]), events, i + 1)

\* line 135: sorted((k,v) for k,v in state.items())
SortedItems(state) ==
    LET order == SortedInts(DOMAIN state)
    IN  [i \in 1..Len(order) |-> <<order[i], state[order[i]]>>]

RECURSIVE MonophoneFrom(_, _, _)
\* MonophoneFrom with a fault: the final entry yields an interval too
MonophoneFrom_FinalEntryToo(note_events, i, state) ==
    IF i > Len(note_events) THEN <<>>
    ELSE LET after == ApplyEvents(state, note_events[i][2], 1)
             duration == IF i = Len(note_events) THEN 0
                         ELSE note_events[i + 1][1] - note_events[i][1]
         IN  <<<<duration, SortedItems(after)>>>>
             \o MonophoneFrom(note_events, i + 1, after)

\* lines 127-135: the pairs (entry i, entry i+1), from i on, with the dict
\* state as it is before entry i
MonophoneFrom(note_events, i, state) ==
    IF i >= Len(note_events) THEN <<>>
    ELSE LET after == ApplyEvents(state, note_events[i][2], 1)
             duration == note_events[i + 1][1] - note_events[i][1]
         IN  <<<<duration, SortedItems(after)>>>>
             \o MonophoneFrom(note_events, i + 1, after)

\* lines 120-138: monophone_notes
MonophoneNotes(trks) ==
    LET ne == NoteEvents(trks)
    IN  IF ne.err # "none" THEN [err |-> ne.err, list |-> <<>>]
        ELSE [err |-> "none", list |-> MonophoneFrom(ne.list, 1, <<>>)]

\* a call of note_events() on the parsed file (midifile.py line 156)
NoteEventsCall ==
    /\ pc = "parsed"
    /\ \E r \in {NoteEvents(tracks)} :
          IF r.err # "none"
          THEN Abort(r.err) /\ UNCHANGED timeline
          ELSE timeline' = r.list /\ pc' = "merged" /\ UNCHANGED error
    /\ UNCHANGED <<data, cur, format, ntrks, division, ticks_per_second,
                   _last_msg_type, tracks, track, end_pos, tick_pos, decoded,
                   intervals>>
    /\ UNCHANGED plannerVars

\* a call of monophone_notes() (midifile.py line 163, midi2gcode.py line 133)
MonophoneNotesCall ==
    /\ pc = "merged"
    /\ \E r \in {MonophoneNotes(tracks)} :
          IF r.err # "none"
          THEN Abort(r.err) /\ UNCHANGED intervals
          ELSE intervals' = r.list /\ pc' = "extracted" /\ UNCHANGED error
    /\ UNCHANGED <<data, cur, format, ntrks, division, ticks_per_second,
                   _last_msg_type, tracks, track, end_pos, tick_pos, decoded,
                   timeline>>
    /\ UNCHANGED plannerVars

\* lines 7-14: MidiFile.__init__ on one of the files
InitParser ==
    /\ _pos = ResetPos
    /\ _last_dir = InitDir
    /\ emitted = <<>>
    /\ prev_pos = ResetPos
    /\ prev_dir = InitDir
    /\ requested = <<>>
    /\ move_error = "none"
    /\ calls = 0
    /\ trace = <<>>
    /\ splits = <<>>
    /\ run = 0
    /\ idx = 0
    /\ output = <<>>
    /\ FileChosen
    /\ cur = 0
    /\ pc = "header"
    /\ format = 0
    /\ ntrks = 0
    /\ division = 0
    /\ ticks_per_second = R(0)
    /\ _last_msg_type = Unset
    /\ tracks = <<>>
    /\ track = <<>>
    /\ end_pos = 0
    /\ tick_pos = 0
    /\ error = "none"
    /\ decoded = [how |-> "none", at |-> 0, explicit |-> Unset, between |-> {}]
    /\ timeline = <<>>
    /\ intervals = <<>>

NextParser ==
    \/ ParseHeader
    \/ ParseTrackHeader
    \/ ParseEvent
    \/ EndTrack
    \/ NoteEventsCall
    \/ MonophoneNotesCall

SpecParser == InitParser /\ [][NextParser]_vars

----------------------------------------------------------------------------
(* Parser claims                                                           *)

\* every event appended so far, in parse order
ParsedEvents == Concat(tracks) \o track

TempoEvents == SelectSeq(ParsedEvents, LAMBDA ev : ev.type = 81)

\* C4: when a track's declared length extends past the end of the file and
\* the parser has consumed the whole file, its next step aborts the parse;
\* it does not go on reading events.
C4_AbortsOnTruncation ==
    [][(pc = "events" /\ end_pos > Len(data) /\ cur >= Len(data))
          => pc' = "aborted"]_vars

\* the value the first tempo event in parse order resolves to
FirstTempoValue ==
    IF TempoEvents = <<>> THEN R(0)
    ELSE RMul(Rat(1000000, FromBytes(TempoEvents[1].msg)), R(division))

C5_FirstTempoWins ==
    (pc # "header" /\ ~IsSMPTE(division) /\ division > 0)
    => ticks_per_second = FirstTempoValue

\* C5: for a PPQN file with positive division ticks_per_second is the value
\* derived from the first tempo event in parse order; once it is set no
\* later step changes it, and with an SMPTE division no step changes it.
C5_ResolvedOnce ==
    /\ []C5_FirstTempoWins
    /\ [][(ticks_per_second # R(0) \/ IsSMPTE(division))
             => ticks_per_second' = ticks_per_second]_vars

\* two tempo events with different values in two tracks, both parsed
C5_Witness ==
    /\ pc = "parsed"
    /\ Len(tracks) = 2
    /\ Len(TempoEvents) = 2
    /\ TempoEvents[1].msg # TempoEvents[2].msg
    /\ \E i \in 1..Len(tracks[2]) : tracks[2][i].type = 81
    /\ ticks_per_second = R(480)

\* C6: with the top bit of division set, header parsing succeeds and sets
\* ticks_per_second to frames-per-second (bits 8-14) times ticks-per-frame
\* (bits 0-7) before any track is read.
C6_SMPTEResolved ==
    (pc # "header" /\ IsSMPTE(division))
    => /\ error = "none"
       /\ pc # "aborted"
       /\ ticks_per_second = R(((division \div 256) % 128) * (division % 256))

\* the two-track files of the end-to-end scenario: division 480, a tempo
\* event of 500000, note-on at tick 0 and note-off at tick 480 on channel 0
ScenarioFiles ==
    {FileOf(DivisionPPQN, evs, split, 2) :
        evs \in {<<EvTempo500k, EvNoteOn, EvNoteOffLate>>,
                 <<EvNoteOn, EvNoteOffLate, EvTempo500k>>},
        split \in {0, 1, 2, 3}}

ScenarioDone == data \in ScenarioFiles /\ pc = "extracted"

\* C7 as stated: the scenario yields ticks_per_second = 2000 and one
\* interval of 480 ticks (0.24 s) with channel 0 holding pitch 69.
C7_Original ==
    ScenarioDone
    => /\ ticks_per_second = R(2000)
       /\ intervals = << <<480, << <<0, 69>> >> >> >>
       /\ RDiv(R(intervals[1][1]), ticks_per_second) = Rat(24, 100)

\* C7 amended: the scenario yields ticks_per_second = 960 and one interval
\* of 480 ticks (0.5 s) with channel 0 holding pitch 69.
C7_EndToEnd ==
    ScenarioDone
    => /\ ticks_per_second = R(960)
       /\ intervals = << <<480, << <<0, 69>> >> >> >>
       /\ RDiv(R(intervals[1][1]), ticks_per_second) = Rat(1, 2)

\* the scenario with the tempo in the first track, the notes in the second
C7_Witness ==
    /\ pc = "extracted"
    /\ data = FileOf(DivisionPPQN, <<EvTempo500k, EvNoteOn, EvNoteOffLate>>, 1, 2)

\* C8: an event whose first byte has its high bit clear is decoded with the
\* status of the most recent channel message that carried a status byte,
\* that first byte being payload byte one and the payload having the table
\* length of that status.
C8_RunningStatus ==
    (/\ pc = "events"
     /\ Len(track) > 0
     /\ decoded.how = "running"
     /\ decoded.at < Len(data))
    => LET ev == track[Len(track)]
       IN  /\ ev.type = decoded.explicit
           /\ ev.msg[1] = data[decoded.at + 1]
           /\ Len(ev.msg) = MSGLEN(ev.type)

\* the same, for the events whose payload bytes are all present in the file
C8_WhenBytesPresent ==
    (decoded.at + MSGLEN(decoded.explicit) <= Len(data)) => C8_RunningStatus

\* a data byte after a channel message and a meta or sysex event in between
C8_RunningAfterMeta ==
    /\ pc = "events"
    /\ Len(track) > 0
    /\ decoded.how = "running"
    /\ decoded.between \cap {"meta", "sysex"} # {}
    /\ decoded.at + MSGLEN(decoded.explicit) <= Len(data)

----------------------------------------------------------------------------
(* The merger and the extractor on tracks of raw events                    *)

\* (type, msg) of the raw events: note-on key 60 and 62, note-on with
\* velocity 0, note-off, note-on on channel 1, program change
RawKinds == {<<144, <<60, 64>>>>, <<144, <<62, 64>>>>, <<144, <<60, 0>>>>,
             <<128, <<60, 0>>>>, <<145, <<60, 64>>>>, <<192, <<5>>>>}

RawDeltas == {0, 3}

RawSeqs == UNION {[1..k -> RawDeltas \X RawKinds] : k \in 0..MaxRawEvents}

\* lines 89-94: the track a sequence of (delta, (type, msg)) parses to
RECURSIVE TrackOf(_, _)
TrackOf(raw, tick) ==
    IF raw = <<>> THEN <<>>
    ELSE <<[tick |-> tick + raw[1][1], type |-> raw[1][2][1], msg |-> raw[1][2][2]]>>
         \o TrackOf(Tail(raw), tick + raw[1][1])

\* what the first track may begin with: nothing, or a note-on of pitch 60 on
\* channel 0 at tick 0
Preludes == {<<>>, <<[tick |-> 0, type |-> 144, msg |-> <<60, 64>>]>>}

\* self.tracks after parsing two tracks
TracksChosen ==
    \E raw \in RawSeqs, prelude \in Preludes :
       \E split \in 0..Len(raw) :
          tracks = <<prelude \o TrackOf(SubSeq(raw, 1, split), 0),
                     TrackOf(SubSeq(raw, split + 1, Len(raw)), 0)>>

\* a MidiFile whose two tracks have been parsed
InitNotes ==
    /\ _pos = ResetPos
    /\ _last_dir = InitDir
    /\ emitted = <<>>
    /\ prev_pos = ResetPos
    /\ prev_dir = InitDir
    /\ requested = <<>>
    /\ move_error = "none"
    /\ calls = 0
    /\ trace = <<>>
    /\ splits = <<>>
    /\ run = 0
    /\ idx = 0
    /\ output = <<>>
    /\ data = <<>>
    /\ cur = 0
    /\ pc = "parsed"
    /\ format = 1
    /\ ntrks = 2
    /\ division = DivisionPPQN
    /\ ticks_per_second = R(0)
    /\ _last_msg_type = Unset
    /\ TracksChosen
    /\ track = <<>>
    /\ end_pos = 0
    /\ tick_pos = 0
    /\ error = "none"
    /\ decoded = [how |-> "none", at |-> 0, explicit |-> Unset, between |-> {}]
    /\ timeline = <<>>
    /\ intervals = <<>>

NextNotes == NoteEventsCall \/ MonophoneNotesCall

SpecNotes == InitNotes /\ [][NextNotes]_vars

----------------------------------------------------------------------------
(* Midi2Gcode.generate                                                     *)

\* lines 8-12
CALIBRATION == [axis \in Axes |-> IF axis = "Z" THEN Rat(240, 99) ELSE Rat(1920, 99)]

\* lines 16-20
SPEED_RANGES == [axis \in Axes |-> IF axis = "Z" THEN <<200, 500>> ELSE <<1500, 10000>>]

\* lines 30-34
AXIS == [channel \in 0..2 |-> AxisOrder[channel + 1]]

RECURSIVE Pow2(_)
Pow2(k) ==
    IF k = 0 THEN R(1)
    ELSE IF k > 0 THEN RMul(R(2), Pow2(k - 1))
    ELSE RDiv(Pow2(k + 1), R(2))

\* lines 36-40: 440 * 2**((note-69)/12). The power is rational exactly when
\* the note is a whole number of octaves from 69; those are the notes the
\* operator is applied to.
freq_for_note(note) == RMul(R(440), Pow2((note - 69) \div 12))

\* lines 42-52
speed_for_note(axis, note) ==
    LET speed == RMul(freq_for_note(note), CALIBRATION[axis])
        lo == SPEED_RANGES[axis][1]
        hi == SPEED_RANGES[axis][2]
    IN  IF RLe(R(lo), speed) /\ RLe(speed, R(hi)) THEN speed ELSE R(0)

\* line 143: the dict speeds of a non-empty state
Speeds(state) ==
    [axis \in {AXIS[state[i][1]] : i \in 1..Len(state)} |->
        speed_for_note(axis,
            state[CHOOSE i \in 1..Len(state) : AXIS[state[i][1]] = axis][2])]

\* line 144 without the square root: sum(speed*speed ...), the square of
\* speed_combined; it is 0 exactly when speed_combined is
RECURSIVE SumSquares(_, _, _)
SumSquares(speeds, order, i) ==
    IF i > Len(order) THEN R(0)
    ELSE RAdd(RMul(speeds[order[i]], speeds[order[i]]),
              SumSquares(speeds, order, i + 1))

\* a printed command; a field the command does not carry is <<>>
G1(pos, speed_sq) == [cmd |-> "G1", pos |-> pos, speed_sq |-> speed_sq, S |-> <<>>]
G4(seconds) == [cmd |-> "G4", pos |-> <<>>, speed_sq |-> <<>>, S |-> seconds]
M84 == [cmd |-> "M84", pos |-> <<>>, speed_sq |-> <<>>, S |-> <<>>]

genUnchanged == <<data, cur, format, ntrks, division, ticks_per_second,
                  _last_msg_type, tracks, track, end_pos, tick_pos, decoded,
                  timeline, intervals>>

\* lines 130-131: _reset and the prologue; _last_dir is not touched
GenerateStart ==
    /\ pc \in {"constructed", "generated"}
    /\ run < MaxRuns
    /\ run' = run + 1
    /\ idx' = 0
    /\ _pos' = ResetPos
    /\ output' = <<G1(ResetPos, <<>>), G4(R(1))>>
    /\ pc' = "generating"
    /\ UNCHANGED <<_last_dir, emitted, prev_pos, prev_dir, requested, move_error,
                   calls, trace, splits>>
    /\ UNCHANGED <<error, genUnchanged>>

\* lines 133-148: one iteration of the loop over monophone_notes()
GenerateInterval ==
    /\ pc = "generating"
    /\ idx < Len(intervals)
    /\ LET duration == intervals[idx + 1][1]
           state == intervals[idx + 1][2]
           duration_seconds == RDiv(R(duration), ticks_per_second)
           speeds == Speeds(state)
           distances == [axis \in DOMAIN speeds |->
                            RDiv(RMul(duration_seconds, speeds[axis]), R(60))]
           speed_sq == SumSquares(speeds, Items(speeds), 1)
           still == <<_pos, _last_dir, emitted, prev_pos, prev_dir, requested,
                      move_error, calls, trace, splits>>
       IN  IF ticks_per_second[1] = 0
           THEN /\ Abort("ZeroDivisionError")
                /\ UNCHANGED <<idx, output, still>>
           ELSE IF RLt(duration_seconds, Rat(1, 100))
           THEN /\ idx' = idx + 1
                /\ output' = <<>>
                /\ UNCHANGED <<pc, error, still>>
           ELSE IF state = <<>>
           THEN /\ idx' = idx + 1
                /\ output' = <<G4(duration_seconds)>>
                /\ UNCHANGED <<pc, error, still>>
           ELSE \E s \in {Move(Begin(_pos, _last_dir), distances)} :
                   /\ _pos' = s.pos
                   /\ _last_dir' = s.dir
                   /\ emitted' = s.out
                   /\ move_error' = s.err
                   /\ trace' = s.trace
                   /\ splits' = s.splits
                   /\ prev_pos' = _pos
                   /\ prev_dir' = _last_dir
                   /\ requested' = distances
                   /\ calls' = calls + 1
                   /\ output' = [i \in 1..Len(s.out) |-> G1(s.out[i], speed_sq)]
                   /\ IF s.err # "none"
                      THEN Abort(s.err) /\ UNCHANGED idx
                      ELSE idx' = idx + 1 /\ UNCHANGED <<pc, error>>
    /\ UNCHANGED run
    /\ UNCHANGED genUnchanged

\* line 152: the epilogue (lines 90-93)
GenerateEnd ==
    /\ pc = "generating"
    /\ idx = Len(intervals)
    /\ pc' = "generated"
    /\ output' = <<M84>>
    /\ UNCHANGED <<_pos, _last_dir, emitted, prev_pos, prev_dir, requested,
                   move_error, calls, trace, splits, run, idx>>
    /\ UNCHANGED <<error, genUnchanged>>

\* interval lengths in ticks: under 10 ms, 0.5 s and 3 s at 960 ticks per second
Durations == {5, 480, 2880}

\* held pitches, as sorted (channel, pitch) lists; the pitches are octaves of
\* 69: on X and Y 45, 57 and 69 sound and 81 is over the band, on Z only 45
\* sounds
HeldStates == {<<>>, <<<<0, 69>>>>, <<<<0, 81>>>>, <<<<2, 45>>>>,
               <<<<0, 69>>, <<2, 69>>>>, <<<<0, 81>>, <<2, 69>>>>,
               <<<<0, 69>>, <<1, 57>>>>}

\* what self.midifile.monophone_notes() returns (line 133)
IntervalsChosen ==
    \E n \in 0..MaxIntervals :
       \E list \in [1..n -> Durations \X HeldStates] : intervals = list

\* lines 56-63: Midi2Gcode(mf) on a parsed file with 960 ticks per second
InitGenerate ==
    /\ _pos = ResetPos
    /\ _last_dir = InitDir
    /\ emitted = <<>>
    /\ prev_pos = ResetPos
    /\ prev_dir = InitDir
    /\ requested = <<>>
    /\ move_error = "none"
    /\ calls = 0
    /\ trace = <<>>
    /\ splits = <<>>
    /\ run = 0
    /\ idx = 0
    /\ output = <<>>
    /\ data = <<>>
    /\ cur = 0
    /\ pc = "constructed"
    /\ format = 1
    /\ ntrks = 2
    /\ division = DivisionPPQN
    /\ ticks_per_second = R(960)
    /\ _last_msg_type = Unset
    /\ tracks = <<>>
    /\ track = <<>>
    /\ end_pos = 0
    /\ tick_pos = 0
    /\ error = "none"
    /\ decoded = [how |-> "none", at |-> 0, explicit |-> Unset, between |-> {}]
    /\ timeline = <<>>
    /\ IntervalsChosen

NextGenerate == GenerateStart \/ GenerateInterval \/ GenerateEnd

SpecGenerate == InitGenerate /\ [][NextGenerate]_vars

----------------------------------------------------------------------------
(* Merger and extractor claims                                             *)

NoteTicks == {ev.tick : ev \in {e \in AllRaw(tracks) : IsNoteControl(e.type)}}

MinNoteTick == CHOOSE x \in NoteTicks : \A y \in NoteTicks : x <= y

\* C9: with at least one note event the merged timeline starts at tick 0,
\* its ticks are strictly ascending, and they are the note events' ticks
\* minus the smallest of them; with no note event the timeline is empty.
C9_MergerNormalization ==
    (pc \in {"merged", "extracted"})
    => IF NoteTicks = {}
       THEN timeline = <<>>
       ELSE /\ Len(timeline) = Cardinality(NoteTicks)
            /\ timeline[1][1] = 0
            /\ \A i \in 1..(Len(timeline) - 1) : timeline[i][1] < timeline[i + 1][1]
            /\ {timeline[i][1] : i \in 1..Len(timeline)}
                  = {t - MinNoteTick : t \in NoteTicks}

\* note events in both tracks, the earliest of them after tick 0
C9_Witness ==
    /\ pc = "merged"
    /\ Len(timeline) >= 2
    /\ MinNoteTick > 0
    /\ \A t \in 1..2 : \E i \in 1..Len(tracks[t]) : IsNoteControl(tracks[t][i].type)

RECURSIVE SumDurations(_)
SumDurations(ivs) ==
    IF ivs = <<>> THEN 0 ELSE ivs[1][1] + SumDurations(Tail(ivs))

\* the timeline with the occurrences of its final entry removed
WithoutFinalOccurrences(tl) ==
    [i \in 1..Len(tl) |-> IF i = Len(tl) THEN <<tl[i][1], <<>>>> ELSE tl[i]]

\* C10: a timeline of n entries gives max(0, n-1) intervals, the i-th of
\* duration tick[i+1] - tick[i] > 0, summing to last tick minus first tick,
\* and the occurrences of the final entry change no emitted interval.
C10_ExtractorPartition ==
    (pc = "extracted")
    => LET n == Len(timeline)
       IN  /\ Len(intervals) = (IF n = 0 THEN 0 ELSE n - 1)
           /\ \A i \in 1..Len(intervals) :
                 /\ intervals[i][1] = timeline[i + 1][1] - timeline[i][1]
                 /\ intervals[i][1] > 0
           /\ n > 0 => SumDurations(intervals) = timeline[n][1] - timeline[1][1]
           /\ intervals = MonophoneFrom(WithoutFinalOccurrences(timeline), 1, <<>>)

\* three timeline entries, the final one holding an onset
C10_Witness ==
    /\ pc = "extracted"
    /\ Len(timeline) = 3
    /\ Len(intervals) = 2
    /\ \E j \in 1..Len(timeline[3][2]) : timeline[3][2][j][1]

\* the occurrences of the timeline entries 1..i, in the order of application
RECURSIVE AppliedUpTo(_)
AppliedUpTo(i) ==
    IF i = 0 THEN <<>> ELSE AppliedUpTo(i - 1) \o timeline[i][2]

\* the pitch a sorted item list gives for a channel, Unset when it has none
HeldIn(items, channel) ==
    IF \E a \in 1..Len(items) : items[a][1] = channel
    THEN items[CHOOSE a \in 1..Len(items) : items[a][1] = channel][2]
    ELSE Unset

\* the pitch the claim says a channel holds after the occurrences L: that of
\* the last onset on the channel, unless an offset of that same pitch
\* follows it
HeldAfter(L, channel) ==
    LET onsets == {p \in 1..Len(L) : L[p][1] /\ L[p][2] = channel}
    IN  IF onsets = {} THEN Unset
        ELSE LET last == CHOOSE p \in onsets : \A q \in onsets : q <= p
             IN  IF \E q \in (last + 1)..Len(L) :
                        L[q] = <<FALSE, channel, L[last][3]>>
                 THEN Unset
                 ELSE L[last][3]

Channels == 0..15

\* C11: after any sequence of timeline entries each channel holds at most one
\* pitch; an onset overwrites the held pitch and an offset clears it if and
\* only if its pitch is the held one, so the pitch held in every interval is
\* that of the channel's last onset unless an offset of that pitch followed
\* it; an offset of any other pitch changes nothing and raises no error.
C11_MonophonicCollapse ==
    pc = "extracted" =>
        /\ error = "none"
        /\ \A i \in 1..Len(intervals) :
              /\ \A a, b \in 1..Len(intervals[i][2]) :
                     intervals[i][2][a][1] = intervals[i][2][b][1] => a = b
              /\ \A c \in Channels :
                     HeldIn(intervals[i][2], c) = HeldAfter(AppliedUpTo(i), c)

\* channel 0 holds 62 after 60 was superseded, the offset of 60 arrives in the
\* second entry, and the interval after it still reports 62
C11_Witness ==
    /\ pc = "extracted"
    /\ Len(intervals) >= 2
    /\ intervals[1][2] = <<<<0, 62>>>>
    /\ <<TRUE, 0, 60>> \in {timeline[1][2][j] : j \in 1..Len(timeline[1][2])}
    /\ timeline[2][2] = <<<<FALSE, 0, 60>>>>
    /\ intervals[2][2] = <<<<0, 62>>>>

\* note_events() and monophone_notes() give, on the tracks trks, the timeline
\* and the intervals they gave on self.tracks
SameOutcome(trks) ==
    \E r \in {NoteEvents(trks)} :
       /\ r = [err |-> "none", list |-> timeline]
       /\ MonophoneFrom(r.list, 1, <<>>) = intervals

\* a note-off turned into the note-on with velocity 0 of the same channel
\* and pitch, a note-on with velocity 0 turned into the note-off; any other
\* event as it is
OtherEncoding(ev) ==
    IF ev.type \div 16 = 8
    THEN [ev EXCEPT !.type = @ + 16, !.msg = <<ev.msg[1], 0>>]
    ELSE IF ev.type \div 16 = 9 /\ ev.msg[2] = 0
    THEN [ev EXCEPT !.type = @ - 16]
    ELSE ev

\* the tracks with the i-th event of track t in its other encoding
ReplacedAt(trks, t, i) == [trks EXCEPT ![t][i] = OtherEncoding(trks[t][i])]

\* C13: replacing any note-off by a note-on with velocity 0 on the same
\* channel, pitch and tick, or the reverse, leaves the merged timeline and the
\* extracted intervals unchanged, and no timeline entry lists an occurrence
\* twice (both encodings at one tick give a single offset).
C13_VelocityZeroAliasing ==
    pc = "extracted" =>
        /\ \A t \in DOMAIN tracks : \A i \in DOMAIN tracks[t] :
              OtherEncoding(tracks[t][i]) # tracks[t][i] =>
                 SameOutcome(ReplacedAt(tracks, t, i))
        /\ \A e \in 1..Len(timeline) : \A a, b \in 1..Len(timeline[e][2]) :
              timeline[e][2][a] = timeline[e][2][b] => a = b

\* pitch 60 is held on channel 0, then both encodings of its offset arrive at
\* one tick: the entry holds the single offset and the next interval is silent
C13_Witness ==
    /\ pc = "extracted"
    /\ Len(intervals) >= 2
    /\ intervals[1][2] = <<<<0, 60>>>>
    /\ timeline[2][2] = <<<<FALSE, 0, 60>>>>
    /\ intervals[2][2] = <<>>
    /\ \E ev \in AllRaw(tracks) : ev.type = 128 /\ ev.tick = timeline[2][1]
    /\ \E ev \in AllRaw(tracks) :
          ev.type = 144 /\ ev.msg[2] = 0 /\ ev.tick = timeline[2][1]

\* the tracks with the events i and i+1 of track t exchanged
ExchangedAt(trks, t, i) ==
    [trks EXCEPT ![t] = [@ EXCEPT ![i] = trks[t][i + 1], ![i + 1] = trks[t][i]]]

\* the pitches of the onsets on a channel in the e-th timeline entry
OnsetPitches(e, channel) ==
    {timeline[e][2][j][3] : j \in {k \in 1..Len(timeline[e][2]) :
        timeline[e][2][k][1] /\ timeline[e][2][k][2] = channel}}

\* C20: the occurrences of one tick are applied offsets first, then onsets by
\* channel and ascending pitch, whatever their order in the tracks: exchanging
\* the two tracks, or two neighbours of one tick in a track, changes neither
\* the timeline nor the intervals; so a channel with onsets in an entry holds
\* the highest of their pitches in the following interval, offsets of the
\* same tick notwithstanding.
C20_SameTickOrder ==
    pc = "extracted" =>
        /\ \A e \in 1..Len(timeline) : \A a, b \in 1..Len(timeline[e][2]) :
              a < b =>
                 LET x == timeline[e][2][a]
                     y == timeline[e][2][b]
                 IN  /\ x[1] => y[1]
                     /\ x[1] = y[1] =>
                           (x[2] < y[2] \/ (x[2] = y[2] /\ x[3] < y[3]))
        /\ SameOutcome(<<tracks[2], tracks[1]>>)
        /\ \A t \in DOMAIN tracks : \A i \in 1..(Len(tracks[t]) - 1) :
              (/\ tracks[t][i].tick = tracks[t][i + 1].tick
               /\ tracks[t][i] # tracks[t][i + 1])
              => SameOutcome(ExchangedAt(tracks, t, i))
        /\ \A e \in 1..Len(intervals) : \A c \in Channels :
              OnsetPitches(e, c) # {} =>
                 /\ HeldIn(intervals[e][2], c) \in OnsetPitches(e, c)
                 /\ \A key \in OnsetPitches(e, c) : key <= HeldIn(intervals[e][2], c)

\* a track carries the onset of 60 and, after it at the same tick, the offset
\* of 60: the entry lists the offset first and the following interval holds 60
C20_Witness ==
    /\ pc = "extracted"
    /\ \E t \in DOMAIN tracks : \E i \in 1..(Len(tracks[t]) - 1) :
          /\ tracks[t][i].type = 144 /\ tracks[t][i].msg = <<60, 64>>
          /\ tracks[t][i + 1].type = 128 /\ tracks[t][i + 1].msg = <<60, 0>>
          /\ tracks[t][i].tick = tracks[t][i + 1].tick
          /\ \E e \in 1..Len(intervals) :
                /\ timeline[e][1] = tracks[t][i].tick - MinNoteTick
                /\ timeline[e][2] = <<<<FALSE, 0, 60>>, <<TRUE, 0, 60>>>>
                /\ intervals[e][2] = <<<<0, 60>>>>

----------------------------------------------------------------------------
(* Planner claims                                                          *)

PositionInLimits(pos) == \A axis \in Axes : InLimits(axis, pos[axis])

\* the position before the i-th emitted one
Before(i) == IF i = 1 THEN prev_pos ELSE emitted[i - 1]

RECURSIVE PathLength(_, _)
PathLength(axis, i) ==
    IF i = 0 THEN R(0)
    ELSE RAdd(PathLength(axis, i - 1),
              RAbs(RSub(emitted[i][axis], Before(i)[axis])))

AllPositive(distances) == \A axis \in DOMAIN distances : distances[axis][1] > 0

\* C1: the stored position and every position emitted by move lie within
\* the travel limits of every axis, after any sequence of move calls made
\* from the reset position with non-negative distances.
C1_TravelLimits ==
    /\ PositionInLimits(_pos)
    /\ \A i \in 1..Len(emitted) : PositionInLimits(emitted[i])

\* a call that had to split and reverse, after an earlier call
C1_Witness ==
    /\ calls = 2
    /\ Len(emitted) >= 3
    /\ \E i \in 1..Len(emitted) : RLt(emitted[i]["X"], Before(i)["X"])

\* C2: when every requested distance is strictly positive and some axis's
\* distance exceeds its reach, the absolute differences between consecutive
\* emitted positions sum, per requested axis, to the requested distance.
C2_SplitPreservesDistance ==
    (/\ calls > 0
     /\ AllPositive(requested)
     /\ ~SingleMoveFits(prev_pos, requested))
    => /\ move_error = "none"
       /\ \A axis \in DOMAIN requested :
             PathLength(axis, Len(emitted)) = requested[axis]

\* a split over two axes with different distances, in three or more moves
C2_Witness ==
    /\ calls > 0
    /\ DOMAIN requested = {"X", "Y"}
    /\ requested["X"] = R(330)
    /\ requested["Y"] = R(90)
    /\ ~SingleMoveFits(prev_pos, requested)
    /\ Len(emitted) >= 3
    /\ PathLength("Y", Len(emitted)) = R(90)

\* C3: when every requested distance is at most the axis's reach, move
\* emits exactly one position, it is within limits, and each requested axis
\* differs from its prior coordinate by exactly the requested distance.
C3_Reachability ==
    (calls > 0 /\ SingleMoveFits(prev_pos, requested))
    => /\ move_error = "none"
       /\ Len(emitted) = 1
       /\ emitted[1] = _pos
       /\ PositionInLimits(emitted[1])
       /\ \A axis \in DOMAIN requested :
             RAbs(RSub(emitted[1][axis], prev_pos[axis])) = requested[axis]

\* a single move in which the Y axis had to reverse its remembered direction
C3_Witness ==
    /\ calls > 0
    /\ SingleMoveFits(prev_pos, requested)
    /\ "Y" \in DOMAIN requested
    /\ requested["Y"] = R(90)
    /\ Len(emitted) = 1
    /\ _last_dir["Y"] # prev_dir["Y"]
    /\ emitted[1]["Y"] # prev_pos["Y"]

\* C14: when a call's mapping has an axis with distance 0 while another
\* axis's distance exceeds its reach, the call raises no error, emits a
\* finite non-empty sequence of in-limit positions that covers the full
\* distance of every requested axis, and leaves the zero-distance axis where
\* it was.
C14_ZeroDistanceSplit ==
    (/\ calls > 0
     /\ \E axis \in DOMAIN requested : requested[axis] = R(0)
     /\ ~SingleMoveFits(prev_pos, requested))
    => /\ move_error = "none"
       /\ Len(emitted) >= 1
       /\ \A i \in 1..Len(emitted) : PositionInLimits(emitted[i])
       /\ \A axis \in DOMAIN requested :
             /\ PathLength(axis, Len(emitted)) = requested[axis]
             /\ requested[axis] = R(0) => _pos[axis] = prev_pos[axis]

\* C15 as stated: after every elementary move the remembered Z direction
\* is -1, whether or not an axis reversed in it.
C15_Original ==
    \A i \in 1..Len(trace) : trace[i].new_dir["Z"] = -1

\* C15: after every elementary move in which some axis had to reverse,
\* whether or not the mapping contains the Z axis, the remembered Z
\* direction is -1; an elementary move in which no axis reverses leaves every
\* remembered direction as it was.
C15_ZBiasOnReversal ==
    \A i \in 1..Len(trace) :
       /\ trace[i].rev # {} => trace[i].new_dir["Z"] = -1
       /\ trace[i].rev = {} => trace[i].new_dir = trace[i].dir

\* a move without the Z axis in which an axis reversed and the Z direction
\* went from +1 to -1, after a move that left it at +1
C15_Witness ==
    \E i \in 2..Len(trace) :
       /\ trace[i - 1].rev = {}
       /\ trace[i - 1].new_dir["Z"] = 1
       /\ "Z" \notin DOMAIN trace[i].distances
       /\ trace[i].rev # {}
       /\ trace[i].dir["Z"] = 1
       /\ trace[i].new_dir["Z"] = -1

\* the coordinate the Z axis gets when it is tried in direction dir first
ZTarget(z, distance, dir) ==
    LET fwd == RAdd(z, RMul(distance, R(dir)))
    IN  IF InLimits("Z", fwd) THEN fwd ELSE RSub(z, RMul(distance, R(dir)))

\* C16 as stated: the Z coordinate an elementary move emits is fixed by Z's
\* coordinate, Z's distance and the Z direction remembered when the move began.
C16_Original ==
    \A i \in 1..Len(trace) :
       "Z" \in DOMAIN trace[i].distances =>
           trace[i].new_pos["Z"] =
               ZTarget(trace[i].pos["Z"], trace[i].distances["Z"], trace[i].dir["Z"])

\* C16: the Z coordinate an elementary move emits is fixed by Z's coordinate,
\* Z's distance, the Z direction remembered when the move began and whether X
\* or Y reversed in this move: if one did, Z is tried downwards first,
\* otherwise in its remembered direction.
C16_ZAfterEarlierReversal ==
    \A i \in 1..Len(trace) :
       "Z" \in DOMAIN trace[i].distances =>
           trace[i].new_pos["Z"] =
               ZTarget(trace[i].pos["Z"], trace[i].distances["Z"],
                       IF trace[i].rev \cap {"X", "Y"} # {} THEN -1
                       ELSE trace[i].dir["Z"])

\* X reverses in a move that found Z remembered as +1 with room above it, and
\* Z goes down
C16_Witness ==
    \E i \in 1..Len(trace) :
       /\ "Z" \in DOMAIN trace[i].distances
       /\ "X" \in trace[i].rev
       /\ trace[i].dir["Z"] = 1
       /\ InLimits("Z", RAdd(trace[i].pos["Z"], trace[i].distances["Z"]))
       /\ RLt(trace[i].new_pos["Z"], trace[i].pos["Z"])

\* the direction line 106 reads for an axis in the i-th elementary move: the
\* one remembered when the move began, but -1 for Z once X or Y has reversed
DirectionTried(i, axis) ==
    IF axis = "Z" /\ trace[i].rev \cap {"X", "Y"} # {} THEN -1
    ELSE trace[i].dir[axis]

\* C17: move never raises its ValueError: in every reachable state, for every
\* distance within an axis's reach the coordinate plus or minus the distance
\* is within the limits; and an axis takes the reversal branch only when
\* continuing in the direction remembered for it would leave the limits.
C17_NoInvariantViolation ==
    /\ move_error # "ValueError"
    /\ _last_dir \in [Axes -> {1, -1}]
    /\ \A axis \in Axes : \A distance \in Distances :
          RLe(distance, MaxDistance(_pos, axis)) =>
              \/ InLimits(axis, RAdd(_pos[axis], distance))
              \/ InLimits(axis, RSub(_pos[axis], distance))
    /\ \A i \in 1..Len(trace) :
          /\ \A axis \in trace[i].rev :
                ~InLimits(axis, RAdd(trace[i].pos[axis],
                                     RMul(trace[i].distances[axis],
                                          R(DirectionTried(i, axis)))))
          /\ \A axis \in {"X", "Y"} :
                trace[i].new_dir[axis] # trace[i].dir[axis] => axis \in trace[i].rev

\* a single elementary move, from a position off the limits, in which both X
\* and Z had to reverse
C17_Witness ==
    /\ calls > 0
    /\ move_error = "none"
    /\ SingleMoveFits(prev_pos, requested)
    /\ Len(trace) = 1
    /\ trace[1].rev = {"X", "Z"}
    /\ prev_pos["X"] # R(LimitLo)
    /\ prev_pos["X"] # R(LimitHi)

\* what the claim says of every split: its first part satisfies the
\* single-move precondition and took one elementary move, and its second
\* part is smaller than the split distance on every axis
SplitsWellFounded ==
    \A k \in 1..Len(splits) :
       /\ SingleMoveFits(splits[k].pos, splits[k].part1)
       /\ splits[k].moves1 = 1
       /\ \A axis \in DOMAIN splits[k].distances :
             RLt(splits[k].part2[axis], splits[k].distances[axis])

TravelRange == LimitHi - LimitLo

----------------------------------------------------------------------------
(* Generation run claims                                                   *)

\* C12: at the start of every generation run on a planner instance, the first
\* and any later one, every axis is at its lower travel limit and every
\* remembered direction is +1.
C12_RunStartState ==
    (pc = "generating" /\ idx = 0) =>
        /\ _pos = ResetPos
        /\ _last_dir = InitDir

\* C19: for every interval of at least 10 ms in which no held pitch gives a
\* non-zero speed (nothing is held, or every held pitch maps to 0), generate
\* prints one dwell of the interval's duration and no motion command; and it
\* never prints a motion command with feed 0.
C19_SilentIntervals ==
    (pc = "generating" /\ idx >= 1) =>
        LET state == intervals[idx][2]
            seconds == RDiv(R(intervals[idx][1]), ticks_per_second)
            silent == \A i \in 1..Len(state) :
                         speed_for_note(AXIS[state[i][1]], state[i][2]) = R(0)
        IN  /\ (silent /\ ~RLt(seconds, Rat(1, 100))) => output = <<G4(seconds)>>
            /\ \A j \in 1..Len(output) :
                  ~(output[j].cmd = "G1" /\ output[j].speed_sq = R(0))

============================================================================
